---- MODULE Spec2Model ----
(***************************************************************************)
(* The browser-side views of the social app (Feed, CreatePost, PostCard,   *)
(* Profile) as one state machine over the remote store they talk to.       *)
(*                                                                         *)
(* Every async function is a task: a record holding the function's name,   *)
(* the await it is suspended at (pc), whether the remote service has       *)
(* answered that await (served), the answer (out, msg, data) and the       *)
(* values of the render closure the function was created in (env).  One    *)
(* action serves a request (the remote service reads or writes the store   *)
(* and fixes the answer), another resumes the function with the answer and *)
(* runs it to its next await.  Nothing cancels a task.                     *)
(*                                                                         *)
(* A remote call ends in one of three ways: "ok", "error" (the promise     *)
(* resolves to {data: null, error}) or "throw" (the promise rejects).      *)
(***************************************************************************)
EXTENDS Integers, Sequences, FiniteSets, TLC

VARIABLES
    view,       \* the component tree under observation: "Feed", "Profile" or "PostCard"
    location,   \* the router's location; navigate("/auth") leaves the view
    session,    \* the auth service's active session: a user id or Null
    db,         \* the remote store: posts, likes, comments, follows
    tasks,      \* the async functions in flight, in creation order
    toast,      \* the last notification shown
    feed,       \* Feed's useState cells
    composer,   \* CreatePost's useState cells
    profile,    \* Profile's useState cells and its userId route parameter
    card,       \* PostCard's useState cells and its props
    events,     \* number of user and environment events so far
    faults,     \* number of failed remote calls so far
    step,       \* the action that produced this state
    obs         \* history of the run the properties refer to

vars == <<view, location, session, db, tasks, toast, feed, composer, profile,
          card, events, faults, step, obs>>

-----------------------------------------------------------------------------
(* Bounds and value sets                                                   *)

\* user events per run of a view, async functions in flight at once in a view,
\* failed remote calls (and session expiries) per run
MaxFeedEvents == 2
MaxFeedTasks == 2
MaxProfileEvents == 2
MaxProfileTasks == 1
MaxCardEvents == 2
MaxCardTasks == 2
MaxFaults == 1

Null == "null"
Users == {"u1", "u2"}
Viewer == "u1"
Other == "u2"

\* A text is a sequence of characters; " " stands for every whitespace character.
Texts == {<<>>, <<" ">>, <<"a">>, <<" ", "a">>, <<"a", " ">>, <<"a", "a">>}

\* the texts typed into the comment field
CommentTexts == {<<" ">>, <<" ", "a">>}

\* error.message of a failed call; "" is a failure that carries no message.
Msgs == {"", "denied"}
Outcomes == {"ok", "error", "throw"}

-----------------------------------------------------------------------------
(* Helpers                                                                 *)

\* The data of an answer: <<>> is null, <<x>> is the value x.
None == <<>>
Some(x) == <<x>>
\* an id that may be null, as data
Opt(id) == IF id = Null THEN None ELSE Some(id)
\* data that holds an id, as an id that may be null
IdOf(data) == IF data = None THEN Null ELSE data[1]

\* a trim of the end only
NoTrimStart(s) == s

RECURSIVE TrimStart(_)
TrimStart(s) ==
    IF s = <<>> THEN <<>>
    ELSE IF Head(s) = " " THEN TrimStart(Tail(s)) ELSE s

\* a trim of the start only
NoTrimEnd(s) == s

RECURSIVE TrimEnd(_)
TrimEnd(s) ==
    IF s = <<>> THEN <<>>
    ELSE IF s[Len(s)] = " " THEN TrimEnd(SubSeq(s, 1, Len(s) - 1)) ELSE s

\* String.prototype.trim
Trim(s) == TrimEnd(TrimStart(s))

\* a test that takes only the empty text for blank
NoText(s) == s = <<>>

\* !content.trim() and !newComment.trim()
Blank(s) == Trim(s) = <<>>

RECURSIVE Reverse(_)
Reverse(s) == IF s = <<>> THEN <<>> ELSE Append(Reverse(Tail(s)), Head(s))

\* .eq("user_id", uid) on rows in store order
RECURSIVE EqUserId(_, _)
EqUserId(s, uid) ==
    IF s = <<>> THEN <<>>
    ELSE IF Head(s).user_id = uid THEN <<Head(s)>> \o EqUserId(Tail(s), uid)
    ELSE EqUserId(Tail(s), uid)

\* data || []
RowsOrEmpty(data) == IF data = None THEN <<>> ELSE data[1]

\* rows?.length || 0, the data being the number of rows
LengthOr0(data) == IF data = None THEN 0 ELSE data[1]

\* a count that takes every answer for an empty one
NoRows(data) == 0

\* rows?.length || 0, the data being the rows
RowCountOr0(data) == IF data = None THEN 0 ELSE Len(data[1])

\* error.message || fallback
MessageOr(msg, fallback) == IF msg = "" THEN fallback ELSE msg

ErrorToast(text) == [kind |-> "error", text |-> text]
SuccessToast(text) == [kind |-> "success", text |-> text]
NoToast == [kind |-> "none", text |-> ""]

Task(fn, pc, act, env) ==
    [fn |-> fn, pc |-> pc, act |-> act, env |-> env,
     served |-> FALSE, out |-> "", msg |-> "", data |-> None]

Remove(ts, i) == SubSeq(ts, 1, i - 1) \o SubSeq(ts, i + 1, Len(ts))

\* task i is suspended at await pc of fn and the service has not answered yet
Await(i, fn, pc) ==
    /\ tasks[i].fn = fn
    /\ tasks[i].pc = pc
    /\ ~tasks[i].served

\* the answer of await pc of task i has arrived; the function can resume
Ready(i, fn, pc) ==
    /\ tasks[i].fn = fn
    /\ tasks[i].pc = pc
    /\ tasks[i].served

Reply(i, out, msg, data) ==
    [tasks EXCEPT ![i].served = TRUE, ![i].out = out, ![i].msg = msg, ![i].data = data]

\* the step that produced a state, when it was the entry or the end of a
\* handler: the action and, for the end of a task, the answer it resumed with
Did(name, out) == [a |-> name, out |-> out]

\* the label of every other step: the remote service's, another client's, an
\* edit of a field, a task's step from one await to the next
Quiet == Did("-", "")

\* A failed call is a fault of the environment and counts against MaxFaults, as
\* do the end of the session and a write of another client.
CanAnswer(o) == o = "ok" \/ faults < MaxFaults
Cost(o) == IF o = "ok" THEN 0 ELSE 1

InFlight(fn) == {i \in 1..Len(tasks) : tasks[i].fn = fn}

\* the route whose element the view is; a card is a card of the Feed page
Route(v) == IF v = "Profile" THEN "/profile" ELSE "/"

Mounted == location = Route(view)

-----------------------------------------------------------------------------
(* History of the toggles of one control (like or follow).  cells is the   *)
(* pair <<flag, counter>> the control shows.  prev and cur are the cells   *)
(* before the last finished toggle and before the running one; cleanPrev   *)
(* and cleanCur say that, since then, no toggle threw and nothing but the  *)
(* toggle wrote the cells.  pair is set when a toggle finishes that was    *)
(* started after the one before it had finished.  twin holds the cells     *)
(* before the first of two toggles of which the second started while the   *)
(* first was running, for as long as neither threw, no third toggle        *)
(* started and nothing but the two wrote the cells.                        *)

Tog0 ==
    [open |-> 0, prev |-> None, cur |-> None, cleanPrev |-> TRUE, cleanCur |-> TRUE,
     pair |-> None, twin |-> None]

TogStart(h, cells) ==
    IF h.open = 0
    THEN [h EXCEPT !.open = 1, !.cur = Some(cells), !.cleanCur = TRUE, !.pair = None,
                   !.twin = None]
    ELSE [h EXCEPT !.open = @ + 1, !.cur = None, !.prev = None, !.pair = None,
                   !.twin = IF h.open = 1 /\ h.cur # None /\ h.cleanCur
                            THEN h.cur ELSE None]

TogFinish(h, threw) ==
    IF h.cur = None
    THEN [h EXCEPT !.open = @ - 1, !.prev = None, !.pair = None,
                   !.twin = IF threw THEN None ELSE @]
    ELSE [h EXCEPT !.open = 0,
                   !.pair = IF h.prev = None THEN None
                            ELSE Some([orig |-> h.prev[1],
                                       clean |-> h.cleanPrev /\ h.cleanCur /\ ~threw]),
                   !.prev = h.cur, !.cur = None,
                   !.cleanPrev = h.cleanCur /\ ~threw, !.cleanCur = TRUE]

\* a load wrote the cells
TogMixed(h) ==
    IF h.open = 0 THEN [h EXCEPT !.cleanPrev = FALSE, !.twin = None]
    ELSE [h EXCEPT !.cleanCur = FALSE, !.twin = None]

-----------------------------------------------------------------------------
(* Initial values shared by the three views                                *)

Post(id, uid, content) == [id |-> id, user_id |-> uid, content |-> content]

EmptyDb == [posts |-> <<>>, nextId |-> 1, likes |-> {}, comments |-> <<>>, follows |-> {}]

\* useState initial values
FeedState0 == [currentUser |-> Null, posts |-> <<>>, isLoading |-> TRUE]
ComposerState0 == [content |-> <<>>, isLoading |-> FALSE]
ProfileState0 ==
    [userId |-> Null, currentUser |-> Null, profile |-> Null, posts |-> <<>>,
     isFollowing |-> FALSE, followersCount |-> 0, followingCount |-> 0,
     isLoading |-> TRUE]
CardState0 ==
    [post |-> Null, currentUserId |-> Null,
     isLiked |-> FALSE, likesCount |-> 0, commentsCount |-> 0,
     showComments |-> FALSE, comments |-> <<>>, newComment |-> <<>>,
     isLoadingComment |-> FALSE]

Obs0 ==
    [acts |-> 1,          \* activations (runs of the mount effect) so far
     nosession |-> {},    \* activations whose session lookup found no session
     queried |-> {},      \* activations of which the store received a query
     redirected |-> {},   \* activations that navigated to /auth
     created |-> None,    \* id of the post the composer created last
     upset |-> FALSE,     \* a load failed or another client wrote to the store
     tog |-> Tog0,        \* history of the like / follow toggles, see TogStart
     onDelete |-> 0,      \* calls of PostCard's onDelete prop so far
     left |-> None]       \* the views' state when the router left the view

-----------------------------------------------------------------------------
(* The remote store's posts collection                                     *)

\* .order("created_at", { ascending: false })
NewestFirst(posts) == Reverse(posts)

InsertPost(d, uid, content) ==
    [d EXCEPT !.posts = Append(@, Post(d.nextId, uid, content)), !.nextId = @ + 1]

\* a checkAuth that takes every answer of the session lookup for a session
SessionAssumed(data) == FALSE

\* if (!session) of the two checkAuth functions
NoSession(data) == data = None

-----------------------------------------------------------------------------
(* Feed                                                                    *)

othersFeed == <<profile, card>>

\* fetchPosts up to its await: setIsLoading(true) and the posts query
FetchPostsCall(act) == Task("Feed.fetchPosts", "posts", act, [x |-> Null])

\* supabase.auth.getSession() of checkAuth
FeedSessionQuery(i) ==
    /\ view = "Feed"
    /\ Await(i, "Feed.checkAuth", "getSession")
    /\ \E o \in {"ok", "throw"} :
          /\ CanAnswer(o)
          /\ faults' = faults + Cost(o)
          /\ tasks' = Reply(i, o, "", IF o = "ok" THEN Opt(session) ELSE None)
          /\ obs' = [obs EXCEPT !.nosession =
                IF o = "ok" /\ session = Null THEN @ \cup {tasks[i].act} ELSE @]
    /\ step' = Quiet
    /\ UNCHANGED <<view, location, session, db, toast, feed, composer>>
    /\ UNCHANGED othersFeed
    /\ UNCHANGED events

\* checkAuth from the session's arrival to the profiles query
FeedCheckAuthSession(i) ==
    /\ view = "Feed"
    /\ Ready(i, "Feed.checkAuth", "getSession")
    /\ step' = Did("FeedCheckAuthSession", tasks[i].out)
    /\ IF tasks[i].out = "throw"
       THEN /\ tasks' = Remove(tasks, i)
            /\ UNCHANGED <<location, obs>>
       ELSE IF NoSession(tasks[i].data)
       THEN /\ location' = "/auth"
            /\ obs' = [obs EXCEPT !.redirected = @ \cup {tasks[i].act}]
            /\ tasks' = Remove(tasks, i)
       ELSE /\ tasks' = [tasks EXCEPT ![i] =
                   Task("Feed.checkAuth", "profile", tasks[i].act, [uid |-> IdOf(tasks[i].data)])]
            /\ UNCHANGED <<location, obs>>
    /\ UNCHANGED <<view, session, db, toast, feed, composer, events>>
    /\ UNCHANGED othersFeed
    /\ UNCHANGED faults

\* from("profiles").select("*").eq("id", session.user.id).single()
FeedProfileQuery(i) ==
    /\ view = "Feed"
    /\ Await(i, "Feed.checkAuth", "profile")
    /\ \E o \in Outcomes :
          /\ CanAnswer(o)
          /\ faults' = faults + Cost(o)
          /\ tasks' = Reply(i, o, "", IF o = "ok" THEN Some(tasks[i].env.uid) ELSE None)
    /\ obs' = [obs EXCEPT !.queried = @ \cup {tasks[i].act}]
    /\ step' = Quiet
    /\ UNCHANGED <<view, location, session, db, toast, feed, composer>>
    /\ UNCHANGED othersFeed
    /\ UNCHANGED events

\* checkAuth from the profile's arrival to its end: setCurrentUser, fetchPosts()
FeedCheckAuthProfile(i) ==
    /\ view = "Feed"
    /\ Ready(i, "Feed.checkAuth", "profile")
    /\ step' = Quiet
    /\ IF tasks[i].out = "throw"
       THEN /\ tasks' = Remove(tasks, i)
            /\ UNCHANGED <<feed, obs>>
       ELSE /\ feed' = [feed EXCEPT !.currentUser = IdOf(tasks[i].data), !.isLoading = TRUE]
            /\ tasks' = Append(Remove(tasks, i), FetchPostsCall(tasks[i].act))
            /\ UNCHANGED obs
    /\ UNCHANGED <<view, location, session, db, toast, composer, events>>
    /\ UNCHANGED othersFeed
    /\ UNCHANGED faults

\* from("posts").select("*, profiles(...)").order("created_at", {ascending: false})
FeedPostsQuery(i) ==
    /\ view = "Feed"
    /\ Await(i, "Feed.fetchPosts", "posts")
    /\ \E o \in Outcomes :
          /\ CanAnswer(o)
          /\ faults' = faults + Cost(o)
          /\ tasks' = Reply(i, o, "", IF o = "ok" THEN Some(NewestFirst(db.posts)) ELSE None)
          /\ obs' = [obs EXCEPT !.upset = @ \/ o # "ok",
                                !.queried = @ \cup {tasks[i].act}]
    /\ step' = Quiet
    /\ UNCHANGED <<view, location, session, db, toast, feed, composer>>
    /\ UNCHANGED othersFeed
    /\ UNCHANGED events

\* fetchPosts from the posts' arrival to its end
FeedFetchPostsDone(i) ==
    /\ view = "Feed"
    /\ Ready(i, "Feed.fetchPosts", "posts")
    /\ step' = Did("FeedFetchPostsDone", tasks[i].out)
    /\ feed' = [feed EXCEPT
          !.posts = IF tasks[i].out = "ok" THEN RowsOrEmpty(tasks[i].data) ELSE @,
          !.isLoading = FALSE]
    /\ tasks' = Remove(tasks, i)
    /\ UNCHANGED <<view, location, session, db, toast, composer, events, obs>>
    /\ UNCHANGED othersFeed
    /\ UNCHANGED faults

\* what Feed renders below the navbar: the loader while currentUser is not
\* set or isLoading, the empty-state message, or the cards
FeedShows ==
    IF feed.currentUser = Null THEN "loading"
    ELSE IF feed.isLoading THEN "loading"
    ELSE IF Len(feed.posts) = 0 THEN "empty"
    ELSE "cards"

\* posts.map(post => <PostCard key={post.id} .../>): the ids of the cards
RECURSIVE Ids(_)
Ids(posts) == IF posts = <<>> THEN <<>> ELSE <<Head(posts).id>> \o Ids(Tail(posts))

FeedCards == IF FeedShows = "cards" THEN Ids(feed.posts) ELSE <<>>

-----------------------------------------------------------------------------
(* CreatePost, rendered by Feed once currentUser is set                    *)

ComposerRendered == view = "Feed" /\ Mounted /\ feed.currentUser # Null

\* a handleSubmit without its finally block
NoFinally(c) == c

\* finally { setIsLoading(false) } of handleSubmit
Finally(c) == [c EXCEPT !.isLoading = FALSE]

\* onChange of the textarea, which is disabled while isLoading
SetContent(v) ==
    /\ ComposerRendered
    /\ events < MaxFeedEvents
    /\ ~composer.isLoading
    /\ v # composer.content
    /\ composer' = [composer EXCEPT !.content = v]
    /\ events' = events + 1
    /\ step' = Quiet
    /\ UNCHANGED <<view, location, session, db, tasks, toast, feed, obs>>
    /\ UNCHANGED othersFeed
    /\ UNCHANGED faults

\* handleSubmit up to its first await; the submit event reaches the handler
\* whenever the form is rendered
HandleSubmit ==
    /\ ComposerRendered
    /\ events < MaxFeedEvents
    /\ Len(tasks) < MaxFeedTasks
    /\ events' = events + 1
    /\ step' = Did("HandleSubmit", "")
    /\ IF Blank(composer.content)
       THEN UNCHANGED <<composer, tasks>>
       ELSE /\ composer' = [composer EXCEPT !.isLoading = TRUE]
            /\ tasks' = Append(tasks,
                  Task("CreatePost.handleSubmit", "getUser", 0,
                       [content |-> composer.content, user |-> Null]))
    /\ UNCHANGED <<view, location, session, db, toast, feed, obs>>
    /\ UNCHANGED othersFeed
    /\ UNCHANGED faults

\* supabase.auth.getUser()
CreatePostUserQuery(i) ==
    /\ view = "Feed"
    /\ Await(i, "CreatePost.handleSubmit", "getUser")
    /\ \E o \in {"ok", "throw"}, m \in Msgs :
          /\ CanAnswer(o)
          /\ o = "ok" => m = ""
          /\ faults' = faults + Cost(o)
          /\ tasks' = Reply(i, o, m, IF o = "ok" THEN Opt(session) ELSE None)
    /\ step' = Quiet
    /\ UNCHANGED <<view, location, session, db, toast, feed, composer, obs>>
    /\ UNCHANGED othersFeed
    /\ UNCHANGED events

\* handleSubmit from the user's arrival to the insert, or to its end
CreatePostUser(i) ==
    /\ view = "Feed"
    /\ Ready(i, "CreatePost.handleSubmit", "getUser")
    /\ step' = Quiet
    /\ IF tasks[i].out = "throw"
       THEN /\ toast' = ErrorToast(MessageOr(tasks[i].msg, "Failed to create post"))
            /\ composer' = Finally(composer)
            /\ tasks' = Remove(tasks, i)
       ELSE IF tasks[i].data = None
       THEN /\ toast' = ErrorToast(MessageOr("Not authenticated", "Failed to create post"))
            /\ composer' = Finally(composer)
            /\ tasks' = Remove(tasks, i)
       ELSE /\ tasks' = [tasks EXCEPT ![i] =
                   Task("CreatePost.handleSubmit", "insert", 0,
                        [content |-> tasks[i].env.content, user |-> IdOf(tasks[i].data)])]
            /\ UNCHANGED <<toast, composer>>
    /\ UNCHANGED <<view, location, session, db, feed, events, obs>>
    /\ UNCHANGED othersFeed
    /\ UNCHANGED faults

\* from("posts").insert({user_id: user.id, content: content.trim()})
CreatePostInsert(i) ==
    /\ view = "Feed"
    /\ Await(i, "CreatePost.handleSubmit", "insert")
    /\ \/ /\ db' = InsertPost(db, tasks[i].env.user, Trim(tasks[i].env.content))
          /\ tasks' = Reply(i, "ok", "", Some(db.nextId))
          /\ UNCHANGED faults
       \/ /\ \E o \in {"error", "throw"}, m \in Msgs : tasks' = Reply(i, o, m, None)
          /\ faults < MaxFaults
          /\ faults' = faults + 1
          /\ UNCHANGED db
    /\ step' = Quiet
    /\ UNCHANGED <<view, location, session, toast, feed, composer, obs>>
    /\ UNCHANGED othersFeed
    /\ UNCHANGED events

\* handleSubmit from the insert's answer to its end; onPostCreated is Feed's
\* fetchPosts
CreatePostDone(i) ==
    /\ view = "Feed"
    /\ Ready(i, "CreatePost.handleSubmit", "insert")
    /\ step' = Did("CreatePostDone", tasks[i].out)
    /\ IF tasks[i].out = "ok"
       THEN /\ composer' = Finally([composer EXCEPT !.content = <<>>])
            /\ toast' = SuccessToast("Post created!")
            /\ feed' = [feed EXCEPT !.isLoading = TRUE]
            /\ tasks' = Append(Remove(tasks, i), FetchPostsCall(0))
            /\ obs' = [obs EXCEPT !.created = tasks[i].data]
       ELSE /\ composer' = Finally(composer)
            /\ toast' = ErrorToast(MessageOr(tasks[i].msg, "Failed to create post"))
            /\ tasks' = Remove(tasks, i)
            /\ UNCHANGED <<feed, obs>>
    /\ UNCHANGED <<view, location, session, db, events>>
    /\ UNCHANGED othersFeed
    /\ UNCHANGED faults

-----------------------------------------------------------------------------
(* The environment: the session ends, another client writes to the store   *)

SessionEnds ==
    /\ faults < MaxFaults
    /\ session # Null
    /\ session' = Null
    /\ faults' = faults + 1
    /\ step' = Quiet
    /\ UNCHANGED <<view, location, db, tasks, toast, feed, composer, profile, card, obs, events>>

OtherClientPosts ==
    /\ view = "Feed"
    /\ faults < MaxFaults
    /\ db' = InsertPost(db, Other, <<"a">>)
    /\ faults' = faults + 1
    /\ obs' = [obs EXCEPT !.upset = TRUE]
    /\ step' = Quiet
    /\ UNCHANGED <<view, location, session, tasks, toast, feed, composer, profile, card>>
    /\ UNCHANGED events

-----------------------------------------------------------------------------

InitFeed ==
    /\ view = "Feed"
    /\ location = "/"
    /\ session \in {Viewer, Null}
    /\ db \in {EmptyDb, InsertPost(EmptyDb, Other, <<"a">>)}
    /\ tasks = <<Task("Feed.checkAuth", "getSession", 1, [uid |-> Null])>>
    /\ toast = NoToast
    /\ feed = FeedState0
    /\ composer = ComposerState0
    /\ profile = ProfileState0
    /\ card = CardState0
    /\ events = 0
    /\ faults = 0
    /\ step = Did("Init", "")
    /\ obs = Obs0

NextFeed ==
    \/ \E i \in 1..Len(tasks) : FeedSessionQuery(i)
    \/ \E i \in 1..Len(tasks) : FeedCheckAuthSession(i)
    \/ \E i \in 1..Len(tasks) : FeedProfileQuery(i)
    \/ \E i \in 1..Len(tasks) : FeedCheckAuthProfile(i)
    \/ \E i \in 1..Len(tasks) : FeedPostsQuery(i)
    \/ \E i \in 1..Len(tasks) : FeedFetchPostsDone(i)
    \/ \E i \in 1..Len(tasks) : CreatePostUserQuery(i)
    \/ \E i \in 1..Len(tasks) : CreatePostUser(i)
    \/ \E i \in 1..Len(tasks) : CreatePostInsert(i)
    \/ \E i \in 1..Len(tasks) : CreatePostDone(i)
    \/ \E v \in Texts : SetContent(v)
    \/ HandleSubmit
    \/ SessionEnds
    \/ OtherClientPosts

SpecFeed == InitFeed /\ [][NextFeed]_vars

-----------------------------------------------------------------------------
(* Profile                                                                 *)

othersProfile == <<feed, composer, card>>

\* an insert that writes the two columns in the other order
FollowRowSwapped(follower, following) == <<following, follower>>

FollowRow(follower, following) == <<follower, following>>

\* from("follows").select("*").eq("following_id", userId), used for its length
Followers(d, uid) == Cardinality({f \in d.follows : f[2] = uid})

\* from("follows").select("*").eq("follower_id", userId), used for its length
Following(d, uid) == Cardinality({f \in d.follows : f[1] = uid})

\* from("posts").select(...).eq("user_id", userId).order("created_at", {ascending: false})
PostsOf(d, uid) == NewestFirst(EqUserId(d.posts, uid))

\* a handleFollow that counts every toggle as a follow
FollowedCountUp(wasFollowing, prev) == prev + 1

\* setFollowersCount(prev => prev - 1) when unfollowing, prev + 1 when following
FollowedCount(wasFollowing, prev) == IF wasFollowing THEN prev - 1 ELSE prev + 1

\* the checkAuth created by the render that runs the effect: it closes over that
\* render's userId and currentUser, and so does the fetchProfile it calls
ProfileCheckAuthCall(act, userId, currentUser) ==
    Task("Profile.checkAuth", "getSession", act,
         [userId |-> userId, currentUser |-> currentUser, uid |-> Null])

\* fetchProfile up to its first await (userId is always set by the route)
FetchProfileCall(act, env) ==
    Task("Profile.fetchProfile", "profile", act,
         [userId |-> env.userId, currentUser |-> env.currentUser, followers |-> None])

ProfileCells == <<profile.isFollowing, profile.followersCount>>

\* supabase.auth.getSession() of checkAuth
ProfileSessionQuery(i) ==
    /\ view = "Profile"
    /\ Await(i, "Profile.checkAuth", "getSession")
    /\ \E o \in {"ok", "throw"} :
          /\ CanAnswer(o)
          /\ faults' = faults + Cost(o)
          /\ tasks' = Reply(i, o, "", IF o = "ok" THEN Opt(session) ELSE None)
          /\ obs' = [obs EXCEPT !.nosession =
                IF o = "ok" /\ session = Null THEN @ \cup {tasks[i].act} ELSE @]
    /\ step' = Quiet
    /\ UNCHANGED <<view, location, session, db, toast, profile>>
    /\ UNCHANGED othersProfile
    /\ UNCHANGED events

\* checkAuth from the session's arrival to the profiles query
ProfileCheckAuthSession(i) ==
    /\ view = "Profile"
    /\ Ready(i, "Profile.checkAuth", "getSession")
    /\ step' = Did("ProfileCheckAuthSession", tasks[i].out)
    /\ IF tasks[i].out = "throw"
       THEN /\ tasks' = Remove(tasks, i)
            /\ UNCHANGED <<location, obs>>
       ELSE IF NoSession(tasks[i].data)
       THEN /\ location' = "/auth"
            /\ obs' = [obs EXCEPT !.redirected = @ \cup {tasks[i].act}]
            /\ tasks' = Remove(tasks, i)
       ELSE /\ tasks' = [tasks EXCEPT ![i] =
                   Task("Profile.checkAuth", "viewer", tasks[i].act,
                        [tasks[i].env EXCEPT !.uid = IdOf(tasks[i].data)])]
            /\ UNCHANGED <<location, obs>>
    /\ UNCHANGED <<view, session, db, toast, profile, events>>
    /\ UNCHANGED othersProfile
    /\ UNCHANGED faults

\* from("profiles").select("*").eq("id", session.user.id).single()
ProfileViewerQuery(i) ==
    /\ view = "Profile"
    /\ Await(i, "Profile.checkAuth", "viewer")
    /\ \E o \in Outcomes :
          /\ CanAnswer(o)
          /\ faults' = faults + Cost(o)
          /\ tasks' = Reply(i, o, "", IF o = "ok" THEN Some(tasks[i].env.uid) ELSE None)
    /\ obs' = [obs EXCEPT !.queried = @ \cup {tasks[i].act}]
    /\ step' = Quiet
    /\ UNCHANGED <<view, location, session, db, toast, profile>>
    /\ UNCHANGED othersProfile
    /\ UNCHANGED events

\* checkAuth from the viewer profile's arrival to its end: setCurrentUser,
\* fetchProfile()
ProfileCheckAuthViewer(i) ==
    /\ view = "Profile"
    /\ Ready(i, "Profile.checkAuth", "viewer")
    /\ step' = Quiet
    /\ IF tasks[i].out = "throw"
       THEN /\ tasks' = Remove(tasks, i)
            /\ UNCHANGED <<profile, obs>>
       ELSE /\ profile' = [profile EXCEPT !.currentUser = IdOf(tasks[i].data), !.isLoading = TRUE]
            /\ tasks' = Append(Remove(tasks, i), FetchProfileCall(tasks[i].act, tasks[i].env))
            /\ UNCHANGED obs
    /\ UNCHANGED <<view, location, session, db, toast, events>>
    /\ UNCHANGED othersProfile
    /\ UNCHANGED faults

\* the five reads of fetchProfile, each answered from the store as it is then
FetchProfileAnswer(t) ==
    CASE t.pc = "profile" -> t.env.userId
      [] t.pc = "posts" -> PostsOf(db, t.env.userId)
      [] t.pc = "followers" -> Followers(db, t.env.userId)
      [] t.pc = "following" -> Following(db, t.env.userId)
      [] t.pc = "follow" ->
            FollowRow(t.env.currentUser, t.env.userId)

\* .single() answers an error, with null data, when no row matches
Found(t) == t.pc = "follow" => FollowRow(t.env.currentUser, t.env.userId) \in db.follows

ProfileQuery(i) ==
    /\ view = "Profile"
    /\ tasks[i].fn = "Profile.fetchProfile"
    /\ ~tasks[i].served
    /\ \/ /\ Found(tasks[i])
          /\ tasks' = Reply(i, "ok", "", Some(FetchProfileAnswer(tasks[i])))
          /\ obs' = [obs EXCEPT !.queried = @ \cup {tasks[i].act}]
          /\ UNCHANGED faults
       \/ /\ ~Found(tasks[i])
          /\ tasks' = Reply(i, "error", "", None)
          /\ obs' = [obs EXCEPT !.queried = @ \cup {tasks[i].act}]
          /\ UNCHANGED faults
       \/ /\ faults < MaxFaults
          /\ \E o \in {"error", "throw"} : tasks' = Reply(i, o, "", None)
          /\ faults' = faults + 1
          /\ obs' = [obs EXCEPT !.upset = TRUE, !.queried = @ \cup {tasks[i].act}]
    /\ step' = Quiet
    /\ UNCHANGED <<view, location, session, db, toast, profile>>
    /\ UNCHANGED othersProfile
    /\ UNCHANGED events

\* catch and finally of fetchProfile
FetchProfileEnd(i) ==
    /\ profile' = [profile EXCEPT !.isLoading = FALSE]
    /\ tasks' = Remove(tasks, i)
    /\ UNCHANGED obs

FetchProfileNext(i, pc) ==
    tasks' = [tasks EXCEPT ![i] = Task("Profile.fetchProfile", pc, tasks[i].act, tasks[i].env)]

\* fetchProfile from the target profile's arrival to the posts query
ProfileFetchTarget(i) ==
    /\ view = "Profile"
    /\ Ready(i, "Profile.fetchProfile", "profile")
    /\ step' = Quiet
    /\ IF tasks[i].out = "throw"
       THEN FetchProfileEnd(i)
       ELSE /\ profile' = [profile EXCEPT !.profile = IdOf(tasks[i].data)]
            /\ FetchProfileNext(i, "posts")
            /\ UNCHANGED obs
    /\ UNCHANGED <<view, location, session, db, toast, events>>
    /\ UNCHANGED othersProfile
    /\ UNCHANGED faults

\* fetchProfile from the posts' arrival to the followers query
ProfileFetchPosts(i) ==
    /\ view = "Profile"
    /\ Ready(i, "Profile.fetchProfile", "posts")
    /\ step' = Quiet
    /\ IF tasks[i].out = "throw"
       THEN FetchProfileEnd(i)
       ELSE /\ profile' = [profile EXCEPT
                   !.posts = RowsOrEmpty(tasks[i].data)]
            /\ FetchProfileNext(i, "followers")
            /\ UNCHANGED obs
    /\ UNCHANGED <<view, location, session, db, toast, events>>
    /\ UNCHANGED othersProfile
    /\ UNCHANGED faults

\* fetchProfile from the followers' arrival to the following query
ProfileFetchFollowers(i) ==
    /\ view = "Profile"
    /\ Ready(i, "Profile.fetchProfile", "followers")
    /\ step' = Quiet
    /\ IF tasks[i].out = "throw"
       THEN FetchProfileEnd(i)
       ELSE /\ tasks' = [tasks EXCEPT ![i] =
                   Task("Profile.fetchProfile", "following", tasks[i].act,
                        [tasks[i].env EXCEPT !.followers = tasks[i].data])]
            /\ UNCHANGED <<profile, obs>>
    /\ UNCHANGED <<view, location, session, db, toast, events>>
    /\ UNCHANGED othersProfile
    /\ UNCHANGED faults

\* fetchProfile from the following's arrival: the two counters, then the follow
\* query if the closure's currentUser is set, else the end
ProfileFetchFollowing(i) ==
    /\ view = "Profile"
    /\ Ready(i, "Profile.fetchProfile", "following")
    /\ step' = Quiet
    /\ IF tasks[i].out = "throw"
       THEN FetchProfileEnd(i)
       ELSE /\ obs' = [obs EXCEPT !.tog = TogMixed(@)]
            /\ IF tasks[i].env.currentUser # Null
               THEN /\ profile' = [profile EXCEPT
                           !.followersCount = LengthOr0(tasks[i].env.followers),
                           !.followingCount = LengthOr0(tasks[i].data)]
                    /\ FetchProfileNext(i, "follow")
               ELSE /\ profile' = [profile EXCEPT
                           !.followersCount = LengthOr0(tasks[i].env.followers),
                           !.followingCount = LengthOr0(tasks[i].data),
                           !.isLoading = FALSE]
                    /\ tasks' = Remove(tasks, i)
    /\ UNCHANGED <<view, location, session, db, toast, events>>
    /\ UNCHANGED othersProfile
    /\ UNCHANGED faults

\* fetchProfile from the follow row's arrival to its end
ProfileFetchFollow(i) ==
    /\ view = "Profile"
    /\ Ready(i, "Profile.fetchProfile", "follow")
    /\ step' = Quiet
    /\ IF tasks[i].out = "throw"
       THEN FetchProfileEnd(i)
       ELSE /\ profile' = [profile EXCEPT
                   !.isFollowing = tasks[i].data # None, !.isLoading = FALSE]
            /\ tasks' = Remove(tasks, i)
            /\ obs' = [obs EXCEPT !.tog = TogMixed(@)]
    /\ UNCHANGED <<view, location, session, db, toast, events>>
    /\ UNCHANGED othersProfile
    /\ UNCHANGED faults

\* a page that renders the follow control on the viewer's own profile too
FollowControlAlways ==
    /\ view = "Profile"
    /\ Mounted
    /\ ~profile.isLoading
    /\ profile.profile # Null

\* the follow control: past the loading and the not-found returns, and
\* currentUser?.id !== userId
FollowControlRendered ==
    /\ view = "Profile"
    /\ Mounted
    /\ ~profile.isLoading
    /\ profile.profile # Null
    /\ profile.currentUser # profile.userId

\* handleFollow up to its await
HandleFollow ==
    /\ FollowControlRendered
    /\ events < MaxProfileEvents
    /\ Len(tasks) < MaxProfileTasks
    /\ events' = events + 1
    /\ step' = Did("HandleFollow", "")
    /\ IF profile.currentUser = Null
       THEN UNCHANGED <<tasks, obs>>
       ELSE /\ tasks' = Append(tasks,
                  Task("Profile.handleFollow", "write", 0,
                       [userId |-> profile.userId, viewer |-> profile.currentUser,
                        isFollowing |-> profile.isFollowing]))
            /\ obs' = [obs EXCEPT !.tog = TogStart(@, ProfileCells)]
    /\ UNCHANGED <<view, location, session, db, toast, profile>>
    /\ UNCHANGED othersProfile
    /\ UNCHANGED faults

\* from("follows").delete().eq(...).eq(...) when isFollowing, else
\* from("follows").insert({follower_id, following_id}); the store keeps at most
\* one row per pair
ProfileFollowWrite(i) ==
    /\ view = "Profile"
    /\ Await(i, "Profile.handleFollow", "write")
    /\ LET row == FollowRow(tasks[i].env.viewer, tasks[i].env.userId)
       IN \/ /\ tasks[i].env.isFollowing
             /\ db' = [db EXCEPT !.follows = @ \ {row}]
             /\ tasks' = Reply(i, "ok", "", None)
             /\ UNCHANGED faults
          \/ /\ ~tasks[i].env.isFollowing
             /\ row \notin db.follows
             /\ db' = [db EXCEPT !.follows = @ \cup {row}]
             /\ tasks' = Reply(i, "ok", "", None)
             /\ UNCHANGED faults
          \/ /\ \E o \in {"error", "throw"}, m \in Msgs : tasks' = Reply(i, o, m, None)
             /\ faults < MaxFaults
             /\ faults' = faults + 1
             /\ UNCHANGED db
    /\ step' = Quiet
    /\ UNCHANGED <<view, location, session, toast, profile, obs>>
    /\ UNCHANGED othersProfile
    /\ UNCHANGED events

\* handleFollow from the write's answer to its end
ProfileHandleFollowDone(i) ==
    /\ view = "Profile"
    /\ Ready(i, "Profile.handleFollow", "write")
    /\ step' = Did("ProfileHandleFollowDone", tasks[i].out)
    /\ IF tasks[i].out = "throw"
       THEN /\ toast' = ErrorToast(MessageOr(tasks[i].msg, "Failed to update follow status"))
            /\ UNCHANGED profile
       ELSE /\ profile' = [profile EXCEPT
                   !.isFollowing = ~tasks[i].env.isFollowing,
                   !.followersCount = FollowedCount(tasks[i].env.isFollowing, @)]
            /\ toast' = SuccessToast(IF tasks[i].env.isFollowing
                                     THEN "Unfollowed" ELSE "Following!")
    /\ tasks' = Remove(tasks, i)
    /\ obs' = [obs EXCEPT !.tog = TogFinish(@, tasks[i].out = "throw")]
    /\ UNCHANGED <<view, location, session, db, events>>
    /\ UNCHANGED othersProfile
    /\ UNCHANGED faults

\* the route's userId changes (a click on an author or on the navbar, the
\* browser's history); Profile stays mounted, re-renders and runs
\* useEffect(..., [userId]) again
NavigateProfile(u) ==
    /\ view = "Profile"
    /\ Mounted
    /\ events < MaxProfileEvents
    /\ Len(tasks) < MaxProfileTasks
    /\ u # profile.userId
    /\ profile' = [profile EXCEPT !.userId = u]
    /\ tasks' = Append(tasks, ProfileCheckAuthCall(obs.acts + 1, u, profile.currentUser))
    /\ obs' = [obs EXCEPT !.acts = @ + 1]
    /\ events' = events + 1
    /\ step' = Quiet
    /\ UNCHANGED <<view, location, session, db, toast>>
    /\ UNCHANGED othersProfile
    /\ UNCHANGED faults

InitProfile ==
    /\ view = "Profile"
    /\ location = "/profile"
    /\ session \in {Viewer, Null}
    /\ \E fs \in {{}, {FollowRow(Viewer, Other), FollowRow(Other, Viewer)}} :
          db = [InsertPost(EmptyDb, Other, <<"a">>) EXCEPT !.follows = fs]
    /\ \E u \in Users :
          /\ profile = [ProfileState0 EXCEPT !.userId = u]
          /\ tasks = <<ProfileCheckAuthCall(1, u, Null)>>
    /\ toast = NoToast
    /\ feed = FeedState0
    /\ composer = ComposerState0
    /\ card = CardState0
    /\ events = 0
    /\ faults = 0
    /\ step = Did("Init", "")
    /\ obs = Obs0

NextProfile ==
    \/ \E i \in 1..Len(tasks) : ProfileSessionQuery(i)
    \/ \E i \in 1..Len(tasks) : ProfileCheckAuthSession(i)
    \/ \E i \in 1..Len(tasks) : ProfileViewerQuery(i)
    \/ \E i \in 1..Len(tasks) : ProfileCheckAuthViewer(i)
    \/ \E i \in 1..Len(tasks) : ProfileQuery(i)
    \/ \E i \in 1..Len(tasks) : ProfileFetchTarget(i)
    \/ \E i \in 1..Len(tasks) : ProfileFetchPosts(i)
    \/ \E i \in 1..Len(tasks) : ProfileFetchFollowers(i)
    \/ \E i \in 1..Len(tasks) : ProfileFetchFollowing(i)
    \/ \E i \in 1..Len(tasks) : ProfileFetchFollow(i)
    \/ \E i \in 1..Len(tasks) : ProfileFollowWrite(i)
    \/ \E i \in 1..Len(tasks) : ProfileHandleFollowDone(i)
    \/ HandleFollow
    \/ \E u \in Users : NavigateProfile(u)
    \/ SessionEnds

SpecProfile == InitProfile /\ [][NextProfile]_vars

-----------------------------------------------------------------------------
(* PostCard, with the props its parent gives it                            *)

othersCard == <<feed, composer, profile>>

\* a row of likes: post_id, user_id
LikeRow(postId, uid) == <<postId, uid>>
Comment(postId, uid, content) == [post_id |-> postId, user_id |-> uid, content |-> content]

\* from("likes").select("*").eq("post_id", post.id), used for its length
LikesOf(d, postId) == Cardinality({l \in d.likes : l[1] = postId})

RECURSIVE CommentsOf(_, _)
\* from("comments").select(...).eq("post_id", post.id).order("created_at", {ascending: true})
CommentsOf(cs, postId) ==
    IF cs = <<>> THEN <<>>
    ELSE IF Head(cs).post_id = postId THEN <<Head(cs)>> \o CommentsOf(Tail(cs), postId)
    ELSE CommentsOf(Tail(cs), postId)

RECURSIVE DeletePost(_, _)
\* from("posts").delete().eq("id", post.id)
DeletePost(ps, postId) ==
    IF ps = <<>> THEN <<>>
    ELSE IF Head(ps).id = postId THEN DeletePost(Tail(ps), postId)
    ELSE <<Head(ps)>> \o DeletePost(Tail(ps), postId)

\* a handleLike that counts every toggle as an unlike
LikedCountDown(wasLiked, prev) == prev - 1

\* a handleLike that counts every toggle as a like
LikedCountUp(wasLiked, prev) == prev + 1

\* a handleLike that leaves the counter alone
LikedCountKept(wasLiked, prev) == prev

\* setLikesCount(prev => prev - 1) when unliking, prev + 1 when liking
LikedCount(wasLiked, prev) == IF wasLiked THEN prev - 1 ELSE prev + 1

CardCells == <<card.isLiked, card.likesCount>>

\* fetchLikesAndComments up to its first await
FetchLikesAndCommentsCall(postId) ==
    Task("PostCard.fetchLikesAndComments", "likes", 0, [postId |-> postId, likes |-> None])

\* checkIfLiked up to its await
CheckIfLikedCall(postId, uid) ==
    Task("PostCard.checkIfLiked", "liked", 0, [postId |-> postId, uid |-> uid])

\* the two reads of fetchLikesAndComments, answered from the store as it is then
CardFetchQuery(i) ==
    /\ view = "PostCard"
    /\ tasks[i].fn = "PostCard.fetchLikesAndComments"
    /\ ~tasks[i].served
    /\ \E o \in Outcomes :
          /\ CanAnswer(o)
          /\ faults' = faults + Cost(o)
          /\ tasks' = Reply(i, o, "",
                IF o # "ok" THEN None
                ELSE IF tasks[i].pc = "likes" THEN Some(LikesOf(db, tasks[i].env.postId))
                ELSE Some(CommentsOf(db.comments, tasks[i].env.postId)))
          /\ obs' = [obs EXCEPT !.upset = @ \/ o # "ok"]
    /\ step' = Quiet
    /\ UNCHANGED <<view, location, session, db, toast, card, events>>
    /\ UNCHANGED othersCard

\* fetchLikesAndComments from the likes' arrival to the comments query
CardFetchLikes(i) ==
    /\ view = "PostCard"
    /\ Ready(i, "PostCard.fetchLikesAndComments", "likes")
    /\ step' = Quiet
    /\ IF tasks[i].out = "throw"
       THEN tasks' = Remove(tasks, i)
       ELSE tasks' = [tasks EXCEPT ![i] =
               Task("PostCard.fetchLikesAndComments", "comments", 0,
                    [tasks[i].env EXCEPT !.likes = tasks[i].data])]
    /\ UNCHANGED <<view, location, session, db, toast, card, events, faults, obs>>
    /\ UNCHANGED othersCard

\* fetchLikesAndComments from the comments' arrival to its end
CardFetchComments(i) ==
    /\ view = "PostCard"
    /\ Ready(i, "PostCard.fetchLikesAndComments", "comments")
    /\ step' = Quiet
    /\ IF tasks[i].out = "throw"
       THEN UNCHANGED <<card, obs>>
       ELSE /\ card' = [card EXCEPT
                   !.likesCount = LengthOr0(tasks[i].env.likes),
                   !.commentsCount = RowCountOr0(tasks[i].data),
                   !.comments = RowsOrEmpty(tasks[i].data)]
            /\ obs' = [obs EXCEPT !.tog = TogMixed(@)]
    /\ tasks' = Remove(tasks, i)
    /\ UNCHANGED <<view, location, session, db, toast, events, faults>>
    /\ UNCHANGED othersCard

\* from("likes").select("*").eq("post_id", post.id).eq("user_id", currentUserId).single()
CardLikedQuery(i) ==
    /\ view = "PostCard"
    /\ Await(i, "PostCard.checkIfLiked", "liked")
    /\ LET row == LikeRow(tasks[i].env.postId, tasks[i].env.uid)
       IN \/ /\ row \in db.likes
             /\ tasks' = Reply(i, "ok", "", Some(row))
             /\ UNCHANGED <<faults, obs>>
          \/ /\ row \notin db.likes
             /\ tasks' = Reply(i, "error", "", None)
             /\ UNCHANGED <<faults, obs>>
          \/ /\ faults < MaxFaults
             /\ \E o \in {"error", "throw"} : tasks' = Reply(i, o, "", None)
             /\ faults' = faults + 1
             /\ obs' = [obs EXCEPT !.upset = TRUE]
    /\ step' = Quiet
    /\ UNCHANGED <<view, location, session, db, toast, card, events>>
    /\ UNCHANGED othersCard

\* checkIfLiked from the row's arrival to its end
CardCheckIfLiked(i) ==
    /\ view = "PostCard"
    /\ Ready(i, "PostCard.checkIfLiked", "liked")
    /\ step' = Quiet
    /\ IF tasks[i].out = "throw"
       THEN UNCHANGED <<card, obs>>
       ELSE /\ card' = [card EXCEPT !.isLiked = tasks[i].data # None]
            /\ obs' = [obs EXCEPT !.tog = TogMixed(@)]
    /\ tasks' = Remove(tasks, i)
    /\ UNCHANGED <<view, location, session, db, toast, events, faults>>
    /\ UNCHANGED othersCard

\* handleLike up to its await
HandleLike ==
    /\ view = "PostCard"
    /\ Mounted
    /\ events < MaxCardEvents
    /\ Len(tasks) < MaxCardTasks
    /\ events' = events + 1
    /\ step' = Did("HandleLike", "")
    /\ IF card.currentUserId = Null
       THEN /\ toast' = ErrorToast("Please log in to like posts")
            /\ UNCHANGED <<tasks, obs>>
       ELSE /\ tasks' = Append(tasks,
                  Task("PostCard.handleLike", "write", 0,
                       [postId |-> card.post.id, uid |-> card.currentUserId,
                        isLiked |-> card.isLiked]))
            /\ obs' = [obs EXCEPT !.tog = TogStart(@, CardCells)]
            /\ UNCHANGED toast
    /\ UNCHANGED <<view, location, session, db, card, faults>>
    /\ UNCHANGED othersCard

\* from("likes").delete().eq(...).eq(...) when isLiked, else
\* from("likes").insert({post_id, user_id}); the store keeps at most one row
\* per pair
CardLikeWrite(i) ==
    /\ view = "PostCard"
    /\ Await(i, "PostCard.handleLike", "write")
    /\ LET row == LikeRow(tasks[i].env.postId, tasks[i].env.uid)
       IN \/ /\ tasks[i].env.isLiked
             /\ db' = [db EXCEPT !.likes = @ \ {row}]
             /\ tasks' = Reply(i, "ok", "", None)
             /\ UNCHANGED faults
          \/ /\ ~tasks[i].env.isLiked
             /\ row \notin db.likes
             /\ db' = [db EXCEPT !.likes = @ \cup {row}]
             /\ tasks' = Reply(i, "ok", "", None)
             /\ UNCHANGED faults
          \/ /\ \E o \in {"error", "throw"}, m \in Msgs : tasks' = Reply(i, o, m, None)
             /\ faults < MaxFaults
             /\ faults' = faults + 1
             /\ UNCHANGED db
    /\ step' = Quiet
    /\ UNCHANGED <<view, location, session, toast, card, events, obs>>
    /\ UNCHANGED othersCard

\* handleLike from the write's answer to its end
CardHandleLikeDone(i) ==
    /\ view = "PostCard"
    /\ Ready(i, "PostCard.handleLike", "write")
    /\ step' = Did("CardHandleLikeDone", tasks[i].out)
    /\ IF tasks[i].out = "throw"
       THEN /\ toast' = ErrorToast(MessageOr(tasks[i].msg, "Failed to like post"))
            /\ UNCHANGED card
       ELSE /\ card' = [card EXCEPT
                   !.isLiked = ~tasks[i].env.isLiked,
                   !.likesCount = LikedCount(tasks[i].env.isLiked, @)]
            /\ UNCHANGED toast
    /\ tasks' = Remove(tasks, i)
    /\ obs' = [obs EXCEPT !.tog = TogFinish(@, tasks[i].out = "throw")]
    /\ UNCHANGED <<view, location, session, db, events, faults>>
    /\ UNCHANGED othersCard

\* onClick of the comments button
ToggleComments ==
    /\ view = "PostCard"
    /\ Mounted
    /\ card' = [card EXCEPT !.showComments = ~@]
    /\ step' = Quiet
    /\ UNCHANGED <<view, location, session, db, tasks, toast, events, faults, obs>>
    /\ UNCHANGED othersCard

CommentFormRendered == view = "PostCard" /\ Mounted /\ card.showComments

\* onChange of the comment textarea, which is disabled while isLoadingComment
SetNewComment(v) ==
    /\ CommentFormRendered
    /\ events < MaxCardEvents
    /\ ~card.isLoadingComment
    /\ v # card.newComment
    /\ card' = [card EXCEPT !.newComment = v]
    /\ events' = events + 1
    /\ step' = Quiet
    /\ UNCHANGED <<view, location, session, db, tasks, toast, faults, obs>>
    /\ UNCHANGED othersCard

\* handleComment up to its await; the submit event reaches the handler whenever
\* the form is rendered
HandleComment ==
    /\ CommentFormRendered
    /\ events < MaxCardEvents
    /\ Len(tasks) < MaxCardTasks
    /\ events' = events + 1
    /\ step' = Did("HandleComment", "")
    /\ IF card.currentUserId = Null \/ Blank(card.newComment)
       THEN UNCHANGED <<card, tasks>>
       ELSE /\ card' = [card EXCEPT !.isLoadingComment = TRUE]
            /\ tasks' = Append(tasks,
                  Task("PostCard.handleComment", "insert", 0,
                       [postId |-> card.post.id, uid |-> card.currentUserId,
                        content |-> card.newComment]))
    /\ UNCHANGED <<view, location, session, db, toast, faults, obs>>
    /\ UNCHANGED othersCard

\* from("comments").insert({post_id, user_id, content: newComment.trim()})
CardCommentInsert(i) ==
    /\ view = "PostCard"
    /\ Await(i, "PostCard.handleComment", "insert")
    /\ \/ /\ db' = [db EXCEPT !.comments = Append(@,
                Comment(tasks[i].env.postId, tasks[i].env.uid, Trim(tasks[i].env.content)))]
          /\ tasks' = Reply(i, "ok", "", None)
          /\ UNCHANGED faults
       \/ /\ \E o \in {"error", "throw"}, m \in Msgs : tasks' = Reply(i, o, m, None)
          /\ faults < MaxFaults
          /\ faults' = faults + 1
          /\ UNCHANGED db
    /\ step' = Quiet
    /\ UNCHANGED <<view, location, session, toast, card, events, obs>>
    /\ UNCHANGED othersCard

\* handleComment from the insert's answer to its end
CardHandleCommentDone(i) ==
    /\ view = "PostCard"
    /\ Ready(i, "PostCard.handleComment", "insert")
    /\ step' = Did("CardHandleCommentDone", tasks[i].out)
    /\ IF tasks[i].out = "ok"
       THEN /\ card' = [card EXCEPT !.newComment = <<>>, !.isLoadingComment = FALSE]
            /\ tasks' = Append(Remove(tasks, i), FetchLikesAndCommentsCall(card.post.id))
            /\ toast' = SuccessToast("Comment added!")
       ELSE /\ card' = [card EXCEPT !.isLoadingComment = FALSE]
            /\ tasks' = Remove(tasks, i)
            /\ toast' = ErrorToast(MessageOr(tasks[i].msg, "Failed to add comment"))
    /\ UNCHANGED <<view, location, session, db, events, faults, obs>>
    /\ UNCHANGED othersCard

\* a card that renders the delete control for every viewer
DeleteControlAlways == view = "PostCard" /\ Mounted

\* the delete control: currentUserId === post.user_id
DeleteControlRendered ==
    view = "PostCard" /\ Mounted /\ card.currentUserId = card.post.user_id

\* handleDelete up to its await
HandleDelete ==
    /\ DeleteControlRendered
    /\ events < MaxCardEvents
    /\ Len(tasks) < MaxCardTasks
    /\ tasks' = Append(tasks,
          Task("PostCard.handleDelete", "delete", 0, [postId |-> card.post.id]))
    /\ events' = events + 1
    /\ step' = Did("HandleDelete", "")
    /\ UNCHANGED <<view, location, session, db, toast, card, faults, obs>>
    /\ UNCHANGED othersCard

\* from("posts").delete().eq("id", post.id)
CardPostDelete(i) ==
    /\ view = "PostCard"
    /\ Await(i, "PostCard.handleDelete", "delete")
    /\ \/ /\ db' = [db EXCEPT !.posts = DeletePost(@, tasks[i].env.postId)]
          /\ tasks' = Reply(i, "ok", "", None)
          /\ UNCHANGED faults
       \/ /\ \E o \in {"error", "throw"}, m \in Msgs : tasks' = Reply(i, o, m, None)
          /\ faults < MaxFaults
          /\ faults' = faults + 1
          /\ UNCHANGED db
    /\ step' = Quiet
    /\ UNCHANGED <<view, location, session, toast, card, events, obs>>
    /\ UNCHANGED othersCard

\* handleDelete from the delete's answer to its end
CardHandleDeleteDone(i) ==
    /\ view = "PostCard"
    /\ Ready(i, "PostCard.handleDelete", "delete")
    /\ step' = Did("CardHandleDeleteDone", tasks[i].out)
    /\ IF tasks[i].out = "ok"
       THEN /\ toast' = SuccessToast("Post deleted!")
            /\ obs' = [obs EXCEPT !.onDelete = @ + 1]
       ELSE /\ toast' = ErrorToast(MessageOr(tasks[i].msg, "Failed to delete post"))
            /\ UNCHANGED obs
    /\ tasks' = Remove(tasks, i)
    /\ UNCHANGED <<view, location, session, db, card, events, faults>>
    /\ UNCHANGED othersCard

\* another client likes the post or takes its like back
OtherClientLikes ==
    /\ view = "PostCard"
    /\ faults < MaxFaults
    /\ LET row == LikeRow(card.post.id, Other)
       IN db' = [db EXCEPT !.likes = IF row \in @ THEN @ \ {row} ELSE @ \cup {row}]
    /\ faults' = faults + 1
    /\ obs' = [obs EXCEPT !.upset = TRUE]
    /\ step' = Quiet
    /\ UNCHANGED <<view, location, session, tasks, toast, card, events>>
    /\ UNCHANGED othersCard

\* The card after its first render and its effect: fetchLikesAndComments(), and
\* checkIfLiked() if currentUserId is set.
InitCard ==
    /\ view = "PostCard"
    /\ location = "/"
    /\ \E owner \in Users, viewer \in {Viewer, Null},
          ls \in {{}, {LikeRow(1, Viewer), LikeRow(1, Other)}},
          cs \in {<<Comment(1, Other, <<"a">>)>>} :
          /\ session = viewer
          /\ db = [InsertPost(EmptyDb, owner, <<"a">>) EXCEPT !.likes = ls, !.comments = cs]
          /\ card = [CardState0 EXCEPT !.post = Post(1, owner, <<"a">>),
                                       !.currentUserId = viewer]
          /\ tasks = <<FetchLikesAndCommentsCall(1)>>
                     \o (IF viewer = Null THEN <<>> ELSE <<CheckIfLikedCall(1, viewer)>>)
    /\ toast = NoToast
    /\ feed = FeedState0
    /\ composer = ComposerState0
    /\ profile = ProfileState0
    /\ events = 0
    /\ faults = 0
    /\ step = Did("Init", "")
    /\ obs = Obs0

NextCard ==
    \/ \E i \in 1..Len(tasks) : CardFetchQuery(i)
    \/ \E i \in 1..Len(tasks) : CardFetchLikes(i)
    \/ \E i \in 1..Len(tasks) : CardFetchComments(i)
    \/ \E i \in 1..Len(tasks) : CardLikedQuery(i)
    \/ \E i \in 1..Len(tasks) : CardCheckIfLiked(i)
    \/ \E i \in 1..Len(tasks) : CardLikeWrite(i)
    \/ \E i \in 1..Len(tasks) : CardHandleLikeDone(i)
    \/ \E i \in 1..Len(tasks) : CardCommentInsert(i)
    \/ \E i \in 1..Len(tasks) : CardHandleCommentDone(i)
    \/ \E i \in 1..Len(tasks) : CardPostDelete(i)
    \/ \E i \in 1..Len(tasks) : CardHandleDeleteDone(i)
    \/ HandleLike
    \/ ToggleComments
    \/ \E v \in CommentTexts : SetNewComment(v)
    \/ HandleComment
    \/ HandleDelete
    \/ OtherClientLikes

SpecCard == InitCard /\ [][NextCard]_vars

-----------------------------------------------------------------------------
(* The two pages: a run is a run of one of them.                           *)

InitPages == InitFeed \/ InitProfile

NextPages == NextFeed \/ NextProfile

SpecPages == InitPages /\ [][NextPages]_vars

(* Leaving a view.  The mount effects of Feed, Profile and PostCard return  *)
(* no cleanup function and no request carries an abort signal, so the      *)
(* calls in flight stay in flight when the router unmounts the view.       *)

\* an unmount that drops the calls in flight
Cancelled(ts) == <<>>

\* the calls in flight after the unmount: useEffect returns no cleanup
Unmounted(ts) == ts

\* the router leaves the view's route (the navbar's navigate calls, the
\* browser's history): the view and its cards are unmounted
Leave ==
    /\ Mounted
    /\ location' = (IF view = "Profile" THEN "/" ELSE "/profile")
    /\ tasks' = Unmounted(tasks)
    /\ obs' = [obs EXCEPT !.left = Some([feed |-> feed, profile |-> profile, card |-> card])]
    /\ step' = Did("Leave", "")
    /\ UNCHANGED <<view, session, db, toast, feed, composer, profile, card, events, faults>>

InitLeave == InitFeed \/ InitProfile \/ InitCard

\* the loads of the three views after their first render, and the unmount.
\* fetchProfile's follow query is not among them: the first run of the effect
\* never reaches it, currentUser being null in its closure.
NextLeave ==
    \/ \E i \in 1..Len(tasks) : FeedSessionQuery(i)
    \/ \E i \in 1..Len(tasks) : FeedCheckAuthSession(i)
    \/ \E i \in 1..Len(tasks) : FeedProfileQuery(i)
    \/ \E i \in 1..Len(tasks) : FeedCheckAuthProfile(i)
    \/ \E i \in 1..Len(tasks) : FeedPostsQuery(i)
    \/ \E i \in 1..Len(tasks) : FeedFetchPostsDone(i)
    \/ \E i \in 1..Len(tasks) : ProfileSessionQuery(i)
    \/ \E i \in 1..Len(tasks) : ProfileCheckAuthSession(i)
    \/ \E i \in 1..Len(tasks) : ProfileViewerQuery(i)
    \/ \E i \in 1..Len(tasks) : ProfileCheckAuthViewer(i)
    \/ \E i \in 1..Len(tasks) : ProfileQuery(i)
    \/ \E i \in 1..Len(tasks) : ProfileFetchTarget(i)
    \/ \E i \in 1..Len(tasks) : ProfileFetchPosts(i)
    \/ \E i \in 1..Len(tasks) : ProfileFetchFollowers(i)
    \/ \E i \in 1..Len(tasks) : ProfileFetchFollowing(i)
    \/ \E i \in 1..Len(tasks) : CardFetchQuery(i)
    \/ \E i \in 1..Len(tasks) : CardFetchLikes(i)
    \/ \E i \in 1..Len(tasks) : CardFetchComments(i)
    \/ \E i \in 1..Len(tasks) : CardLikedQuery(i)
    \/ \E i \in 1..Len(tasks) : CardCheckIfLiked(i)
    \/ Leave

SpecLeave == InitLeave /\ [][NextLeave]_vars

(* The two forms, the composer on the Feed and the comment form of a card. *)

InitForms == InitFeed \/ InitCard

NextForms == NextFeed \/ NextCard

SpecForms == InitForms /\ [][NextForms]_vars

-----------------------------------------------------------------------------
(* Properties                                                              *)

\* task i runs checkAuth of activation a and has not resumed from getSession
AwaitsSession(i, a) ==
    /\ tasks[i].act = a
    /\ tasks[i].fn \in {"Feed.checkAuth", "Profile.checkAuth"}
    /\ tasks[i].pc = "getSession"

\* C1: in the Feed and in the Profile view, an activation whose session
\* lookup answered that there is no session navigates to /auth as soon as it
\* resumes, and the store never receives a query of that activation.
C1_NoSessionRedirects ==
    \A a \in obs.nosession :
        /\ a \notin obs.queried
        /\ \/ \E i \in 1..Len(tasks) : AwaitsSession(i, a)
           \/ a \in obs.redirected /\ location = "/auth"

C1_Redirected ==
    \E a \in obs.nosession : a \in obs.redirected /\ location = "/auth" /\ tasks = <<>>

\* the last step ended the second of two toggles of the control, the second
\* started after the first had finished
SecondToggleEnded(done) == step.a = done /\ obs.tog.pair # None

ProfileLoaded ==
    /\ view = "Profile"
    /\ Mounted
    /\ tasks = <<>>
    /\ faults = 0
    /\ ~profile.isLoading
    /\ profile.currentUser # Null

\* C4: when the Profile load has completed for a known viewer, isFollowing
\* says whether the store holds the Follow row (viewer id, target id).
C4_LoadSetsIsFollowing ==
    ProfileLoaded =>
        profile.isFollowing = (FollowRow(profile.currentUser, profile.userId) \in db.follows)

\* task i resumes from a mutation the store did not carry out
FailedWrite(i, fn) == tasks[i].fn = fn /\ tasks[i].served /\ tasks[i].out # "ok"

\* the error notification of a failure with message msg
Notified(i, fallback) == toast' = ErrorToast(MessageOr(tasks[i].msg, fallback))

\* C5: a handler that resumes from a failed mutation (like, follow, comment,
\* post insert, post delete) shows an error notification with the failure's
\* message or the handler's fallback and leaves isLiked, likesCount,
\* isFollowing, followersCount, the comment field and the composer field as
\* they are.
C5_FailedMutationNotifies ==
    [][\A i \in 1..Len(tasks) :
          /\ FailedWrite(i, "PostCard.handleLike") /\ CardHandleLikeDone(i)
                => Notified(i, "Failed to like post") /\ CardCells' = CardCells
          /\ FailedWrite(i, "Profile.handleFollow") /\ ProfileHandleFollowDone(i)
                => Notified(i, "Failed to update follow status") /\ ProfileCells' = ProfileCells
          /\ FailedWrite(i, "PostCard.handleComment") /\ CardHandleCommentDone(i)
                => Notified(i, "Failed to add comment") /\ card'.newComment = card.newComment
          /\ FailedWrite(i, "PostCard.handleDelete") /\ CardHandleDeleteDone(i)
                => Notified(i, "Failed to delete post") /\ CardCells' = CardCells
          /\ FailedWrite(i, "CreatePost.handleSubmit") /\ CreatePostDone(i)
                => Notified(i, "Failed to create post") /\ composer'.content = composer.content
      ]_vars

\* C6: a submit of the composer or of the comment form whose field is empty
\* or holds only spaces starts no remote call, leaves the store and the field
\* as they are and does not set the loading flag.
C6_BlankSubmitDoesNothing ==
    [][/\ HandleSubmit /\ Trim(composer.content) = <<>>
            => tasks' = tasks /\ db' = db /\ composer' = composer
       /\ HandleComment /\ Trim(card.newComment) = <<>>
            => tasks' = tasks /\ db' = db /\ card' = card
      ]_vars

C6_BlankSubmitted ==
    /\ step.a = "HandleSubmit"
    /\ composer.content = <<" ">>
    /\ ~composer.isLoading
    /\ InFlight("CreatePost.handleSubmit") = {}

\* the composer has created a post, every call has been answered and has
\* resumed, none has failed, no other client has written and the session has
\* not ended
PostCreatedAndSettled ==
    /\ view = "Feed"
    /\ obs.created # None
    /\ tasks = <<>>
    /\ faults = 0

\* C7: once the composer has created a post and every load of the Feed has
\* ended, the list shows the new post, authored by the viewer, first, and the
\* composer field is empty.
C7_NewPostShownFirst ==
    PostCreatedAndSettled =>
        /\ feed.posts # <<>>
        /\ Head(feed.posts).id = obs.created[1]
        /\ Head(feed.posts).user_id = feed.currentUser
        /\ composer.content = <<>>

\* the card's reads of likes and comments that are in flight
ReadsInFlight ==
    Cardinality(InFlight("PostCard.fetchLikesAndComments") \cup InFlight("PostCard.checkIfLiked"))

\* C8: a like toggle by a logged-in viewer asks the store to insert the row
\* (post id, viewer id) when the card is unliked and to delete it when the
\* card is liked, the store then holding or lacking just that row; when the
\* request is not rejected the toggle sets isLiked to the opposite and moves
\* likesCount by exactly 1, up for a like and down for an unlike; no step of
\* the toggle starts a read of likes or comments.
C8_LikeToggleWritesAndCounts ==
    [][/\ HandleLike /\ card.currentUserId # Null
            => /\ tasks'[Len(tasks')].env.isLiked = card.isLiked
               /\ ReadsInFlight' = ReadsInFlight
       /\ \A i \in 1..Len(tasks) :
            /\ CardLikeWrite(i) /\ tasks'[i].out = "ok"
                  => /\ db'.likes = IF tasks[i].env.isLiked
                                    THEN db.likes \ {<<card.post.id, card.currentUserId>>}
                                    ELSE db.likes \cup {<<card.post.id, card.currentUserId>>}
                     /\ ReadsInFlight' = ReadsInFlight
            /\ CardHandleLikeDone(i) /\ tasks[i].out # "throw"
                  => /\ card'.isLiked = ~tasks[i].env.isLiked
                     /\ card'.likesCount =
                           IF tasks[i].env.isLiked
                           THEN card.likesCount - 1 ELSE card.likesCount + 1
                     /\ ReadsInFlight' = ReadsInFlight
      ]_vars

C8_Liked ==
    /\ step = Did("CardHandleLikeDone", "ok")
    /\ card.isLiked
    /\ card.likesCount = 1
    /\ db.likes = {<<1, Viewer>>}

\* C9: a follow toggle with a known viewer asks the store to delete the row
\* (viewer id, target id), the viewer and the target being those of the render
\* the toggle started in, when isFollowing is true and to insert it otherwise,
\* the store then lacking or holding just that row; when the request is not
\* rejected the toggle sets isFollowing to the opposite and moves
\* followersCount by exactly 1, down for an unfollow and up for a follow; no
\* step of the toggle changes followingCount, profile or posts.
C9_FollowToggleWritesAndCounts ==
    [][/\ HandleFollow /\ profile.currentUser # Null
            => /\ tasks'[Len(tasks')].env.isFollowing = profile.isFollowing
               /\ tasks'[Len(tasks')].env.viewer = profile.currentUser
               /\ tasks'[Len(tasks')].env.userId = profile.userId
               /\ profile' = profile
       /\ \A i \in 1..Len(tasks) :
            /\ ProfileFollowWrite(i) /\ tasks'[i].out = "ok"
                  => /\ db'.follows = IF tasks[i].env.isFollowing
                                      THEN db.follows \ {<<tasks[i].env.viewer, tasks[i].env.userId>>}
                                      ELSE db.follows \cup {<<tasks[i].env.viewer, tasks[i].env.userId>>}
                     /\ profile' = profile
            /\ ProfileHandleFollowDone(i) /\ tasks[i].out # "throw"
                  => /\ profile'.isFollowing = ~tasks[i].env.isFollowing
                     /\ profile'.followersCount =
                           IF tasks[i].env.isFollowing
                           THEN profile.followersCount - 1 ELSE profile.followersCount + 1
                     /\ profile'.followingCount = profile.followingCount
                     /\ profile'.profile = profile.profile
                     /\ profile'.posts = profile.posts
      ]_vars

C9_Followed ==
    /\ step = Did("ProfileHandleFollowDone", "ok")
    /\ profile.isFollowing
    /\ profile.followersCount = 1
    /\ db.follows = {<<Viewer, Other>>}

\* t is s without the spaces at its two ends
IsTrimOf(t, s) ==
    /\ t # <<>> => t[1] # " " /\ t[Len(t)] # " "
    /\ \E a \in 0..Len(s) :
          /\ a + Len(t) <= Len(s)
          /\ SubSeq(s, a + 1, a + Len(t)) = t
          /\ \A k \in 1..Len(s) : (k <= a \/ k > a + Len(t)) => s[k] = " "

\* the calls of the refresh callback that are in flight
Refreshes == Cardinality(InFlight("Feed.fetchPosts"))

\* C10: a composer submission of a non-blank text first resolves the user;
\* with a user it asks for one insert, which adds to posts exactly one row,
\* owned by that user, whose content is the submitted text without the spaces
\* at its ends; when the insert has succeeded the handler empties the field
\* and calls the refresh callback once; when no user is resolved or the
\* insert fails, the store and the field stay as they are and the callback is
\* not called.  No other step of the submission changes the field or calls
\* the callback.
C10_SubmitInsertsOnce ==
    [][/\ HandleSubmit /\ ~Blank(composer.content)
            => /\ tasks'[Len(tasks')].pc = "getUser"
               /\ tasks'[Len(tasks')].env.content = composer.content
               /\ db' = db /\ composer'.content = composer.content
               /\ Refreshes' = Refreshes
       /\ \A i \in 1..Len(tasks) :
            /\ CreatePostUser(i) /\ (tasks[i].out = "throw" \/ tasks[i].data = None)
                  => /\ Len(tasks') = Len(tasks) - 1
                     /\ db' = db /\ composer'.content = composer.content
                     /\ Refreshes' = Refreshes
            /\ CreatePostUser(i) /\ tasks[i].out = "ok" /\ tasks[i].data # None
                  => /\ tasks'[i].pc = "insert"
                     /\ tasks'[i].env.user = tasks[i].data[1]
                     /\ tasks'[i].env.content = tasks[i].env.content
                     /\ db' = db /\ composer'.content = composer.content
                     /\ Refreshes' = Refreshes
            /\ CreatePostInsert(i) /\ tasks'[i].out = "ok"
                  => /\ Len(db'.posts) = Len(db.posts) + 1
                     /\ SubSeq(db'.posts, 1, Len(db.posts)) = db.posts
                     /\ db'.posts[Len(db'.posts)].user_id = tasks[i].env.user
                     /\ IsTrimOf(db'.posts[Len(db'.posts)].content, tasks[i].env.content)
                     /\ composer'.content = composer.content
                     /\ Refreshes' = Refreshes
            /\ CreatePostInsert(i) /\ tasks'[i].out # "ok"
                  => /\ db' = db /\ composer'.content = composer.content
                     /\ Refreshes' = Refreshes
            /\ CreatePostDone(i) /\ tasks[i].out = "ok"
                  => /\ composer'.content = <<>>
                     /\ Refreshes' = Refreshes + 1
                     /\ db' = db
            /\ CreatePostDone(i) /\ tasks[i].out # "ok"
                  => /\ composer'.content = composer.content
                     /\ Refreshes' = Refreshes
                     /\ db' = db
      ]_vars

C10_Posted ==
    /\ step = Did("CreatePostDone", "ok")
    /\ composer.content = <<>>
    /\ Refreshes >= 1
    /\ \E k \in 1..Len(db.posts) :
          db.posts[k].user_id = Viewer /\ db.posts[k].content = <<"a">>

\* a step of submission i of the composer, of the comment form
SubmitStep(i) ==
    CreatePostUserQuery(i) \/ CreatePostUser(i) \/ CreatePostInsert(i) \/ CreatePostDone(i)
CommentStep(i) == CardCommentInsert(i) \/ CardHandleCommentDone(i)

\* the number of calls of fn in flight
Running(fn) == Cardinality(InFlight(fn))

\* the steps a submission has left at most
Rank(t) ==
    (IF t.pc = "getUser" THEN 2 ELSE 0) + (IF t.served THEN 1 ELSE 2)

\* C11: whenever the composer's isLoading is set a handleSubmit is in flight;
\* a handleSubmit in flight can always take its next step, whatever the user
\* lookup and the insert answer; each step either brings it nearer to its end
\* or is its end, and its end clears isLoading: so, the service answering and
\* the event loop running, isLoading set is followed by isLoading cleared.
\* The same for the comment form's isLoadingComment and handleComment.
C11_FlagEventuallyCleared ==
    /\ [](/\ composer.isLoading => InFlight("CreatePost.handleSubmit") # {}
          /\ card.isLoadingComment => InFlight("PostCard.handleComment") # {}
          /\ \A i \in InFlight("CreatePost.handleSubmit") : ENABLED SubmitStep(i)
          /\ \A i \in InFlight("PostCard.handleComment") : ENABLED CommentStep(i))
    /\ [][\A i \in 1..Len(tasks) :
            /\ tasks[i].fn = "CreatePost.handleSubmit" /\ SubmitStep(i)
                  => \/ /\ Running("CreatePost.handleSubmit")' = Running("CreatePost.handleSubmit") - 1
                        /\ ~composer'.isLoading
                     \/ /\ Running("CreatePost.handleSubmit")' = Running("CreatePost.handleSubmit")
                        /\ tasks'[i].fn = tasks[i].fn
                        /\ Rank(tasks'[i]) < Rank(tasks[i])
            /\ tasks[i].fn = "PostCard.handleComment" /\ CommentStep(i)
                  => \/ /\ Running("PostCard.handleComment")' = Running("PostCard.handleComment") - 1
                        /\ ~card'.isLoadingComment
                     \/ /\ Running("PostCard.handleComment")' = Running("PostCard.handleComment")
                        /\ tasks'[i].fn = tasks[i].fn
                        /\ Rank(tasks'[i]) < Rank(tasks[i])
       ]_vars

C11_ClearedAfterFailure ==
    /\ step.a = "CreatePostDone"
    /\ step.out \in {"error", "throw"}
    /\ toast.kind = "error"
    /\ ~composer.isLoading
    /\ InFlight("CreatePost.handleSubmit") = {}

\* the posts a step removes from the store
Removed == {db.posts[k] : k \in 1..Len(db.posts)} \ {db'.posts[k] : k \in 1..Len(db'.posts)}

\* C12: a card whose viewer is the post's owner offers the delete control, and
\* handleDelete starts only on such a card: every delete request in flight is
\* for the card's post, which the viewer owns, and a delete the store carries
\* out removes that post only; handleDelete calls onDelete once when the
\* delete succeeded and not at all when it returned an error or was rejected.
C12_DeleteOnlyOwnPost ==
    /\ [](/\ \A i \in InFlight("PostCard.handleDelete") :
                /\ tasks[i].env.postId = card.post.id
                /\ card.post.user_id = card.currentUserId
          /\ (/\ view = "PostCard" /\ Mounted
              /\ card.currentUserId = card.post.user_id
              /\ events < MaxCardEvents /\ Len(tasks) < MaxCardTasks)
                => ENABLED HandleDelete)
    /\ [][/\ HandleDelete => card.currentUserId = card.post.user_id
          /\ \A i \in 1..Len(tasks) :
                /\ CardPostDelete(i)
                      => \A q \in Removed :
                            q.id = tasks[i].env.postId /\ q.user_id = card.currentUserId
                /\ CardHandleDeleteDone(i) /\ tasks[i].out = "ok"
                      => obs'.onDelete = obs.onDelete + 1
                /\ CardHandleDeleteDone(i) /\ tasks[i].out # "ok"
                      => obs'.onDelete = obs.onDelete
          /\ (\A i \in 1..Len(tasks) : ~CardHandleDeleteDone(i))
                => obs'.onDelete = obs.onDelete
       ]_vars

C12_Deleted ==
    /\ step = Did("CardHandleDeleteDone", "ok")
    /\ card.currentUserId = card.post.user_id
    /\ obs.onDelete = 1
    /\ db.posts = <<>>

\* C13: on the viewer's own profile (currentUser.id = userId) the follow
\* control is not rendered and handleFollow cannot start; no follow request in
\* flight has the same follower and following id, and the store never holds
\* a Follow row of a user with himself.
C13_NoSelfFollow ==
    /\ [](/\ (view = "Profile" /\ profile.currentUser = profile.userId)
                => ~FollowControlRendered /\ ~ENABLED HandleFollow
          /\ \A i \in InFlight("Profile.handleFollow") :
                tasks[i].env.viewer # tasks[i].env.userId
          /\ \A f \in db.follows : f[1] # f[2])
    /\ [][\A i \in 1..Len(tasks) :
            ProfileFollowWrite(i) =>
                \A f \in (db.follows \ db'.follows) \cup (db'.follows \ db.follows) :
                    f[1] # f[2]
       ]_vars

C13_OwnProfileShown ==
    /\ view = "Profile"
    /\ Mounted
    /\ tasks = <<>>
    /\ ~profile.isLoading
    /\ profile.profile = Viewer
    /\ profile.currentUser = Viewer
    /\ profile.userId = Viewer
    /\ events < MaxProfileEvents
    /\ ~FollowControlRendered

\* the viewer-profile load or a post-list load of the Feed is in flight
FeedLoading == InFlight("Feed.checkAuth") # {} \/ InFlight("Feed.fetchPosts") # {}

\* both loads of the Feed have finished and the page was not left for /auth
\* (isLoading is cleared by the end of a post-list load and by nothing else)
FeedLoaded == view = "Feed" /\ Mounted /\ ~FeedLoading /\ ~feed.isLoading

\* C14: the Feed shows the loading indicator while the viewer-profile load or
\* a post-list load is in flight; once both have finished it shows the
\* empty-state message when the loaded list is empty and otherwise one card
\* per loaded post, and no loading indicator.
C14_LoaderWhileLoading ==
    /\ (view = "Feed" /\ Mounted /\ FeedLoading) => FeedShows = "loading"
    /\ FeedLoaded =>
          /\ FeedShows = (IF feed.posts = <<>> THEN "empty" ELSE "cards")
          /\ FeedCards = Ids(feed.posts)

\* C15: two like toggles can be in flight at once.  When the second starts
\* while the first is in flight (a double click: isLiked not written in
\* between), both hold the same isLiked value and so issue the same remote
\* write; when both have ended without throwing and nothing else wrote the
\* cells, isLiked has changed once and likesCount is off by two from its
\* value before the first.
C15_TwinLikes ==
    (view = "PostCard" /\ obs.tog.twin # None) =>
        LET was == obs.tog.twin[1]
            running == InFlight("PostCard.handleLike")
        IN /\ Cardinality(running) = obs.tog.open
           /\ \A i \in running :
                 tasks[i].env = [postId |-> card.post.id, uid |-> card.currentUserId,
                                 isLiked |-> was[1]]
           /\ obs.tog.open = 2 => CardCells = was
           /\ obs.tog.open = 1 =>
                 CardCells = <<~was[1], IF was[1] THEN was[2] - 1 ELSE was[2] + 1>>
           /\ obs.tog.open = 0 =>
                 CardCells = <<~was[1], IF was[1] THEN was[2] - 2 ELSE was[2] + 2>>

\* both of two overlapping likes have ended: liked, counter two up
C15_OffByTwo ==
    /\ step.a = "CardHandleLikeDone"
    /\ obs.tog.twin # None
    /\ obs.tog.open = 0
    /\ ~obs.tog.twin[1][1]
    /\ card.isLiked
    /\ card.likesCount = obs.tog.twin[1][2] + 2

\* calls of fetchLikesAndComments in flight
Refetches == Cardinality(InFlight("PostCard.fetchLikesAndComments"))

\* C16: a comment submission of a non-blank text by a known viewer asks for
\* one insert, which adds to comments exactly one row with the card's post
\* id, the viewer's id and the text without the spaces at its ends; when the
\* insert has succeeded the handler empties the comment field and starts one
\* fetchLikesAndComments; when it has failed the field keeps its text and no
\* refetch is started.  No other step of the submission changes the store,
\* the field or the refetches.
C16_CommentInsertsOnce ==
    [][/\ (HandleComment /\ card.currentUserId # Null /\ ~Blank(card.newComment))
            => /\ tasks'[Len(tasks')].fn = "PostCard.handleComment"
               /\ tasks'[Len(tasks')].env =
                     [postId |-> card.post.id, uid |-> card.currentUserId,
                      content |-> card.newComment]
               /\ Len(tasks') = Len(tasks) + 1
               /\ db' = db /\ card'.newComment = card.newComment
               /\ Refetches' = Refetches
       /\ \A i \in 1..Len(tasks) :
            /\ CardCommentInsert(i) /\ tasks'[i].out = "ok"
                  => /\ Len(db'.comments) = Len(db.comments) + 1
                     /\ SubSeq(db'.comments, 1, Len(db.comments)) = db.comments
                     /\ LET row == db'.comments[Len(db'.comments)]
                        IN /\ row.post_id = card.post.id
                           /\ row.user_id = card.currentUserId
                           /\ row.user_id # Null
                           /\ IsTrimOf(row.content, tasks[i].env.content)
                           /\ row.content # <<>>
                     /\ [db' EXCEPT !.comments = db.comments] = db
                     /\ card' = card
                     /\ Refetches' = Refetches
            /\ CardCommentInsert(i) /\ tasks'[i].out # "ok"
                  => db' = db /\ card' = card /\ Refetches' = Refetches
            /\ CardHandleCommentDone(i) /\ tasks[i].out = "ok"
                  => /\ card'.newComment = <<>>
                     /\ Refetches' = Refetches + 1
                     /\ tasks'[Len(tasks')].served = FALSE
                     /\ db' = db
            /\ CardHandleCommentDone(i) /\ tasks[i].out # "ok"
                  => /\ card'.newComment = card.newComment
                     /\ Refetches' = Refetches
                     /\ db' = db
      ]_vars

\* a comment of the viewer was inserted and the handler has ended
C16_Commented ==
    /\ step = Did("CardHandleCommentDone", "ok")
    /\ card.newComment = <<>>
    /\ Refetches >= 1
    /\ Len(db.comments) = 2
    /\ db.comments[2].user_id = Viewer
    /\ db.comments[2].content = <<"a">>

\* fetchProfile resumes after the answer of one of its four data queries
ProfileLoadStep(i) ==
    \/ ProfileFetchTarget(i)
    \/ ProfileFetchPosts(i)
    \/ ProfileFetchFollowers(i)
    \/ ProfileFetchFollowing(i)

\* C17: when a data-loading query of the Feed or of the Profile view has
\* failed (answered with an error, or rejected), what the view shows of that
\* query's data (the post list, the profile, the followers or the following
\* counter) stays as it was and no query is started again; a load that was
\* rejected ends with the loading flag cleared.
C17_FailedLoadKeepsData ==
    [][\A i \in 1..Len(tasks) :
          /\ (FeedFetchPostsDone(i) /\ tasks[i].out # "ok")
                => /\ feed'.posts = feed.posts
                   /\ ~feed'.isLoading
                   /\ Len(tasks') = Len(tasks) - 1
          /\ (ProfileFetchTarget(i) /\ tasks[i].out # "ok")
                => profile'.profile = profile.profile
          /\ (ProfileFetchPosts(i) /\ tasks[i].out # "ok")
                => profile'.posts = profile.posts
          /\ (ProfileFetchFollowing(i) /\ tasks[i].env.followers = None)
                => profile'.followersCount = profile.followersCount
          /\ (ProfileFetchFollowing(i) /\ tasks[i].out # "ok")
                => profile'.followingCount = profile.followingCount
          /\ (ProfileLoadStep(i) /\ tasks[i].out # "ok")
                => /\ Len(tasks') <= Len(tasks)
                   /\ tasks[i].out = "throw" => ~profile'.isLoading
      ]_vars

\* the router has left the view, every call has ended, none has failed and
\* there is a session
LoadedAfterLeave == obs.left # None /\ tasks = <<>> /\ faults = 0 /\ session # Null

\* C18: leaving a view cancels no call in flight: the calls of Feed, Profile
\* and PostCard that were in flight when the view was unmounted run to their
\* end and write the view's state, so that once they have ended the state
\* holds what the store answered, whenever the view was left.
C18_NothingCancelled ==
    /\ [](/\ obs.left # None => ~Mounted
          /\ (LoadedAfterLeave /\ view = "Feed")
                => /\ feed.currentUser = session
                   /\ feed.posts = NewestFirst(db.posts)
                   /\ ~feed.isLoading
          /\ (LoadedAfterLeave /\ view = "Profile")
                => /\ profile.currentUser = session
                   /\ profile.profile = profile.userId
                   /\ profile.posts = PostsOf(db, profile.userId)
                   /\ profile.followersCount = Followers(db, profile.userId)
                   /\ profile.followingCount = Following(db, profile.userId)
                   /\ ~profile.isLoading
          /\ (LoadedAfterLeave /\ view = "PostCard")
                => /\ card.likesCount = LikesOf(db, card.post.id)
                   /\ card.comments = CommentsOf(db.comments, card.post.id)
                   /\ card.commentsCount = Len(card.comments)
                   /\ card.isLiked = (LikeRow(card.post.id, card.currentUserId) \in db.likes))
    /\ [][Leave => tasks' = tasks]_vars

\* a card was unmounted before the answers of its loads, which then wrote
\* its counters and its liked flag
C18_WrittenAfterLeave ==
    /\ view = "PostCard"
    /\ LoadedAfterLeave
    /\ obs.left[1].card = [CardState0 EXCEPT !.post = card.post,
                                             !.currentUserId = card.currentUserId]
    /\ card.likesCount = 2
    /\ card.commentsCount = 1
    /\ card.isLiked

\* the same for the Feed and for the Profile page
C18_FeedWrittenAfterLeave ==
    /\ view = "Feed"
    /\ LoadedAfterLeave
    /\ obs.left[1].feed = FeedState0
    /\ feed.posts # <<>>
    /\ feed.currentUser = Viewer

C18_ProfileWrittenAfterLeave ==
    /\ view = "Profile"
    /\ LoadedAfterLeave
    /\ obs.left[1].profile.profile = Null
    /\ profile.profile = profile.userId
    /\ profile.followersCount = 1

\* C19: in every reachable state a card's likesCount and a profile's
\* followersCount are at least zero.
C19_CountersNotNegative == card.likesCount >= 0 /\ profile.followersCount >= 0

\* the card of a known viewer is at rest: no call in flight, no request has
\* failed and no other client has written to the store
CardAtRest ==
    /\ view = "PostCard"
    /\ Mounted
    /\ card.currentUserId # Null
    /\ tasks = <<>>
    /\ faults = 0

\* C20: whenever the card of a known viewer is at rest, isLiked says whether
\* the store holds the Like row (post id, viewer id) and likesCount is the
\* number of Like rows of the post.
C20_CardAgreesWithStore ==
    CardAtRest =>
        /\ card.isLiked = (LikeRow(card.post.id, card.currentUserId) \in db.likes)
        /\ card.likesCount = LikesOf(db, card.post.id)

\* C21: in every reachable state of a post card commentsCount is the length
\* of the card's comments list, whatever loads and comment submissions have
\* run or are in flight.
C21_CountIsLength == card.commentsCount = Len(card.comments)

\* the refetch of a submitted comment has written the list of two comments
\* while the card's other load is still in flight
C21_ReloadedWithComment ==
    /\ view = "PostCard"
    /\ Len(card.comments) = 2
    /\ card.comments[2].user_id = Viewer
    /\ card.commentsCount = 2
    /\ InFlight("PostCard.checkIfLiked") # {}

====
